---- MODULE Spec2Model ----
(***************************************************************************)
(* State-machine model of the MockMan VS Code extension (src/extension.js).*)
(* The file holds three variants of the extension: variants 1 and 2 keep   *)
(* the API key in secret storage with an in-memory cache and have the URI  *)
(* callback and the webview panels; variant 3 reads the key from the       *)
(* configuration and has prompt based sign-up and login commands.          *)
(* Every await of the source is a suspension point: an operation is split  *)
(* into one action per synchronous stretch between two awaits.             *)
(***************************************************************************)
EXTENDS Integers, Sequences, FiniteSets, TLC

\* ------------------------------------------------------------------ bounds
\* Operations (refresh invocations, accepted callbacks, panel message handlers, show
\* requests) that may be in flight together.
MaxInFlight == 2

\* ------------------------------------------------------- values and inputs
\* A JavaScript value that is null/undefined or a string (a tuple of characters).
Null == [present |-> FALSE, val |-> <<>>]
Str(s) == [present |-> TRUE, val |-> s]

\* JavaScript truthiness of a null-or-string value: null, undefined and "" are falsy.
Truthy(k) == k.present /\ Len(k.val) > 0

\* The character class [a-f0-9] of the pattern in handleUri.
HexChars == {"a", "b", "c", "d", "e", "f", "0", "1", "2", "3", "4", "5", "6", "7", "8", "9"}

Whitespace == {" "}

\* The pattern without its anchors: /[a-f0-9]+/ matches any string holding one such character.
RegexHexUnanchored(s) == Len(s) >= 1 /\ \E i \in 1..Len(s) : s[i] \in HexChars

\* /^[a-f0-9]+$/.test(s): one or more characters, all of them in the class.
RegexHex(s) == Len(s) >= 1 /\ \A i \in 1..Len(s) : s[i] \in HexChars

\* String.prototype.trim
RECURSIVE Trim(_)
Trim(s) ==
  IF Len(s) = 0 THEN s
  ELSE IF Head(s) \in Whitespace THEN Trim(Tail(s))
  ELSE IF s[Len(s)] \in Whitespace THEN Trim(SubSeq(s, 1, Len(s) - 1))
  ELSE s

\* URLSearchParams.get(name): the value of the first pair with that name, else null.
RECURSIVE QueryGet(_, _)
QueryGet(query, name) ==
  IF Len(query) = 0 THEN Null
  ELSE IF Head(query)[1] = name THEN Str(Head(query)[2])
  ELSE QueryGet(Tail(query), name)

\* Values of the apikey parameter: the keys the specification names, two well-formed
\* keys, the empty string and a key that only trimming would repair.
KeyInputs ==
  {<<>>, <<"a">>, <<"a", "b", "c", "1", "2", "3">>, <<"A", "B", "C", "1", "2", "3">>,
   <<"1", "2", "g", "4">>, <<"a", " ">>}

\* A query string as URLSearchParams sees it: a list of decoded (name, value) pairs.
Queries ==
  {<<>>, << <<"apikey", <<"g">> >>, <<"apikey", <<"a">> >> >>}
    \cup {<< <<"apikey", v>> >> : v \in KeyInputs}

GoodQuery == << <<"apikey", <<"a">> >> >>

\* The callbacks the concurrent specification draws from: two that are accepted, one
\* with a malformed key, one with another path.
CoreUris ==
  {[path |-> "/callback", query |-> GoodQuery],
   [path |-> "/callback", query |-> << <<"apikey", <<"a", "b", "c", "1", "2", "3">> >> >>],
   [path |-> "/callback", query |-> << <<"apikey", <<"A", "B", "C", "1", "2", "3">> >> >>],
   [path |-> "/", query |-> GoodQuery]}

Uris ==
  [path : {"/callback"}, query : Queries]
    \cup [path : {"/callback/", "/"}, query : {GoodQuery}]

\* A key a previous session may have left in the store.
StoredKey == Str(<<"a", "b", "c", "1", "2", "3">>)

\* Collections as the REST service returns them.
cUsers == [_id |-> "c1", collectionName |-> "Users",
           fields |-> <<[fieldName |-> "name", fieldType |-> "string"],
                        [fieldName |-> "age", fieldType |-> "number"]>>]
cPosts == [_id |-> "c2", collectionName |-> "Posts",
           fields |-> <<[fieldName |-> "title", fieldType |-> "string"]>>]
cUsers2 == [_id |-> "c3", collectionName |-> "Users",
            fields |-> <<[fieldName |-> "email", fieldType |-> "string"]>>]

\* Response bodies of GET /collections/{key}: a falsy body (null) or a list.
NullBody == [falsy |-> TRUE, items |-> <<>>]
ListBody(l) == [falsy |-> FALSE, items |-> l]
Bodies == {NullBody, ListBody(<<cUsers>>), ListBody(<<cPosts, cUsers, cUsers2>>)}

\* ------------------------------------------------------------------- state
VARIABLES
  variant,      \* which of the three copies of the extension runs
  secret,       \* context.secrets entry "mockman.apiKey"
  config,       \* configuration entry mockman.apiKey
  cache,        \* provider.apiKey
  collections,  \* provider.collections, the snapshot
  rendered,     \* the snapshot the tree view was last told about (at fire())
  lastOutcome,  \* the outcome of the refresh() that completed last
  refs,         \* invocations of provider.refresh() in flight
  cbs,          \* accepted URI callbacks (promise chains of handleUri) in flight
  tpl,          \* the template browser: its panel handle and the state of its webview
  msgs,         \* invocations of the template panel's onDidReceiveMessage handler in flight
  show,         \* invocations of TemplateBrowserWebview.show() in flight
  ep,           \* the endpoints view: its panel handle, title and what its webview shows
  upds,         \* invocations of EndpointsWebview.updateContent() in flight
  clips,        \* clipboard writes in flight
  clipboard,    \* the text on the clipboard
  panels,       \* the webview panels of each kind that exist in the editor
  nodes,        \* the root entries the tree view holds, from its last getChildren() call
  auth,         \* invocations of the prompt-based sign-up and login commands in flight
  ev,           \* the step taken last: operation, process and inputs
  out           \* what the last step emitted: notifications, requests, fire()

vars == <<variant, secret, config, cache, collections, rendered, lastOutcome, refs, cbs, tpl, msgs, show,
          ep, upds, clips, clipboard, panels, nodes, auth, ev, out>>

templateVars == <<tpl, msgs, show>>
endpointVars == <<ep, upds, clips, clipboard>>

RefreshIds == 1..MaxInFlight
CallbackIds == 1..MaxInFlight
MsgIds == 1..MaxInFlight
UpdateIds == 1..MaxInFlight
ClipIds == 1..MaxInFlight
ShowIds == 1..MaxInFlight
AuthIds == 1..MaxInFlight

\* Outputs of a step.
Error(text) == [kind |-> "error", text |-> text, key |-> Null, detail |-> ""]
Info(text) == [kind |-> "info", text |-> text, key |-> Null, detail |-> ""]
Fire == [kind |-> "fire", text |-> "", key |-> Null, detail |-> ""]
Get(what, k) == [kind |-> "GET", text |-> what, key |-> k, detail |-> ""]

Count(s, kind) == Cardinality({i \in 1..Len(s) : s[i].kind = kind})

NoUri == [path |-> "", query |-> <<>>]
NoRefresh == [pc |-> "unused", origin |-> "", key |-> Null]
NoCallback == [pc |-> "unused", key |-> <<>>]
\* closed: the panel whose webview sent the message has been disposed since.
NoMsg == [pc |-> "unused", cmd |-> "", key |-> Null, category |-> "", count |-> 0, closed |-> FALSE]
NoShow == [pc |-> "unused", key |-> Null]
NoCollection == [_id |-> "", collectionName |-> "", fields |-> <<>>]
NoUpdate == [pc |-> "unused", collection |-> NoCollection, key |-> Null]
NoClip == [pc |-> "unused", text |-> <<>>]
NoAuth == [pc |-> "unused", command |-> "", key |-> Null]
NoData == [collection |-> NoCollection, apiKey |-> Null]
NoEndpoints == [panel |-> FALSE, title |-> "", data |-> NoData, entries |-> <<>>]

\* What a rejected request carries: error.response?.data?.message and error.message.
NoError == [response |-> FALSE, serverMessage |-> "", message |-> ""]
Errors ==
  {[response |-> TRUE, serverMessage |-> "Invalid API key", message |-> "Request failed with status code 401"],
   [response |-> TRUE, serverMessage |-> "", message |-> "Request failed with status code 500"],
   [response |-> FALSE, serverMessage |-> "", message |-> "timeout of 5000ms exceeded"]}
\* The error a property access on a null panel handle throws.
TypeError == [response |-> FALSE, serverMessage |-> "", message |-> "Cannot read properties of null"]

\* prev is the snapshot a completing refresh() found; cmd, category and text are the
\* message command, the selected category and the rowCount text of a template step;
\* view is what the endpoints view showed when a step that builds it began; fields are
\* the answers to the prompts of a sign-up or login command.
Event(op) ==
  [op |-> op, uri |-> NoUri, body |-> [falsy |-> TRUE, items |-> <<>>], key |-> Null, prev |-> <<>>,
   cmd |-> "", category |-> "", text |-> <<>>, error |-> NoError, node |-> "", children |-> <<>>, fields |-> <<>>,
   view |-> [data |-> [collection |-> [_id |-> "", collectionName |-> "", fields |-> <<>>], apiKey |-> Null],
             entries |-> <<>>]]

Lowest(S) == CHOOSE x \in S : \A y \in S : x <= y

\* The number of operations in flight.
InFlight ==
  Cardinality({r \in RefreshIds : refs[r].pc # "unused"})
    + Cardinality({h \in CallbackIds : cbs[h].pc # "unused"})
    + Cardinality({m \in MsgIds : msgs[m].pc # "unused"})
    + Cardinality({i \in ShowIds : show[i].pc # "unused"})
    + Cardinality({u \in UpdateIds : upds[u].pc # "unused"})
    + Cardinality({c \in ClipIds : clips[c].pc # "unused"})
    + Cardinality({a \in AuthIds : auth[a].pc # "unused"})

\* -------------------------------------------------------------- provider
\* res.data || []
OrEmpty(body) == IF body.falsy THEN <<>> ELSE body.items

\* A refresh that appends the response to what it holds.
SnapshotMerged(prev, body) == prev \o OrEmpty(body)

\* The snapshot after a successful GET.
SnapshotOnSuccess(prev, body) == OrEmpty(body)

\* A failure branch that leaves the snapshot as it is.
SnapshotKept(prev) == prev

\* The snapshot after a failed GET.
SnapshotOnFailure(prev) == <<>>

\* The message the "mockman.refresh" command shows after provider.refresh() returned.
AfterRefresh(origin) == IF origin = "command" THEN <<Info("Collections refreshed!")>> ELSE <<>>

\* The no-key branch of variant 3 in every variant.
NoKeyReportAlways == <<Error("Please login first (MockMan: Login).")>>

\* What refresh() tells the user when it finds no API key.
NoKeyReport == IF variant = 3 THEN <<Error("Please login first (MockMan: Login).")>> ELSE <<>>

\* What the failure branch of refresh() emits before fire().
FailureReport == <<Error("Error fetching collections")>>

\* A failure branch that returns before fire().
NotifyExceptOnFailure(failed) == IF failed THEN <<>> ELSE <<Fire>>

\* The event fired at the end of refresh(), whether or not the GET failed.
Notify(failed) == <<Fire>>

\* A tree that keeps what it rendered whatever event reaches it.
TreeIgnores(outputs, old, snapshot) == old

\* The tree view re-reads the snapshot (getChildren) when the change event reaches it.
TreeAfter(outputs, old, snapshot) == IF Count(outputs, "fire") > 0 THEN snapshot ELSE old

\* The key getApiKey returns without suspending: the cached one (the configured one in variant 3).
KeyAtHand == IF variant = 3 THEN config ELSE cache

\* provider.refresh() up to its first suspension point, called from a step that
\* already emitted pre; origin is "command" when the mockman.refresh command made the call.
StartRefresh(origin, pre) ==
  LET r == Lowest({i \in RefreshIds : refs[i].pc = "unused"})
      k == KeyAtHand
  IN /\ IF Truthy(k)
        THEN /\ refs' = [refs EXCEPT ![r] = [pc |-> "fetch", origin |-> origin, key |-> k]]
             /\ out' = pre \o <<Get("collections", k)>>
             /\ UNCHANGED <<collections, rendered, lastOutcome>>
        ELSE IF variant = 3
        THEN /\ refs' = refs
             /\ collections' = <<>>
             /\ lastOutcome' = <<>>
             /\ out' = pre \o NoKeyReport \o Notify(FALSE) \o AfterRefresh(origin)
             /\ rendered' = TreeAfter(out', rendered, collections')
        ELSE /\ refs' = [refs EXCEPT ![r] = [pc |-> "getKey", origin |-> origin, key |-> Null]]
             /\ out' = pre
             /\ UNCHANGED <<collections, rendered, lastOutcome>>

\* The "mockman.refresh" command.
RefreshCommand ==
  /\ InFlight < MaxInFlight
  /\ StartRefresh("command", <<>>)
  /\ ev' = Event("refresh")
  /\ UNCHANGED <<variant, panels, nodes, auth, secret, config, cache, cbs>>
  /\ UNCHANGED templateVars
  /\ UNCHANGED endpointVars

\* getApiKey: context.secrets.get reads the stored value while the caller is suspended.
RefreshSecretsGet(r) ==
  /\ refs[r].pc = "getKey"
  /\ refs' = [refs EXCEPT ![r].pc = "gotKey", ![r].key = secret]
  /\ ev' = Event("refreshSecretsGet")
  /\ out' = <<>>
  /\ UNCHANGED <<variant, panels, nodes, auth, secret, config, cache, collections, rendered, lastOutcome, cbs>>
  /\ UNCHANGED templateVars
  /\ UNCHANGED endpointVars

\* getApiKey resumes: the value read is cached; refresh() goes on to the key test.
RefreshGotKey(r) ==
  /\ refs[r].pc = "gotKey"
  /\ cache' = refs[r].key
  /\ IF Truthy(refs[r].key)
     THEN /\ refs' = [refs EXCEPT ![r].pc = "fetch"]
          /\ out' = <<Get("collections", refs[r].key)>>
          /\ UNCHANGED <<collections, rendered, lastOutcome>>
     ELSE /\ refs' = [refs EXCEPT ![r] = NoRefresh]
          /\ collections' = <<>>
          /\ lastOutcome' = <<>>
          /\ out' = NoKeyReport \o Notify(FALSE) \o AfterRefresh(refs[r].origin)
          /\ rendered' = TreeAfter(out', rendered, collections')
  /\ ev' = [Event("refreshGotKey") EXCEPT !.key = refs[r].key,
                                           !.prev = IF Truthy(refs[r].key) THEN <<>> ELSE collections]
  /\ UNCHANGED <<variant, panels, nodes, auth, secret, config, cbs>>
  /\ UNCHANGED templateVars
  /\ UNCHANGED endpointVars

\* axios.get resolves.
RefreshFetchOk(r, body) ==
  /\ refs[r].pc = "fetch"
  /\ collections' = SnapshotOnSuccess(collections, body)
  /\ lastOutcome' = OrEmpty(body)
  /\ refs' = [refs EXCEPT ![r] = NoRefresh]
  /\ out' = Notify(FALSE) \o AfterRefresh(refs[r].origin)
  /\ rendered' = TreeAfter(out', rendered, collections')
  /\ ev' = [Event("refreshFetchOk") EXCEPT !.body = body, !.prev = collections]
  /\ UNCHANGED <<variant, panels, nodes, auth, secret, config, cache, cbs>>
  /\ UNCHANGED templateVars
  /\ UNCHANGED endpointVars

\* axios.get rejects: transport error, HTTP error status or timeout.
RefreshFetchFail(r) ==
  /\ refs[r].pc = "fetch"
  /\ collections' = SnapshotOnFailure(collections)
  /\ lastOutcome' = <<>>
  /\ refs' = [refs EXCEPT ![r] = NoRefresh]
  /\ out' = FailureReport \o Notify(TRUE) \o AfterRefresh(refs[r].origin)
  /\ rendered' = TreeAfter(out', rendered, collections')
  /\ ev' = [Event("refreshFetchFail") EXCEPT !.prev = collections]
  /\ UNCHANGED <<variant, panels, nodes, auth, secret, config, cache, cbs>>
  /\ UNCHANGED templateVars
  /\ UNCHANGED endpointVars

\* ------------------------------------------------------------ URI callback
\* The test of handleUri on the apikey parameter.
ValidKey(apiKey) == Truthy(apiKey) /\ Len(apiKey.val) > 0 /\ RegexHex(apiKey.val)

\* A handler that tests the path with startsWith.
CallbackPathPrefix(path) == path \in {"/callback", "/callback/"}

\* The path handleUri answers to.
CallbackPath(path) == path = "/callback"

\* handleUri up to context.secrets.store(...), or the whole of it when it rejects.
HandleUri(uri) ==
  /\ variant \in {1, 2}
  /\ ev' = [Event("handleUri") EXCEPT !.uri = uri]
  /\ IF CallbackPath(uri.path)
     THEN IF ValidKey(QueryGet(uri.query, "apikey"))
          THEN /\ InFlight < MaxInFlight
               /\ cbs' = [cbs EXCEPT ![Lowest({i \in CallbackIds : cbs[i].pc = "unused"})] =
                            [pc |-> "storing", key |-> Trim(QueryGet(uri.query, "apikey").val)]]
               /\ out' = <<>>
          ELSE /\ out' = <<Error("Invalid API Key format.")>>
               /\ UNCHANGED cbs
     ELSE /\ out' = <<Error("Invalid redirect path.")>>
          /\ UNCHANGED cbs
  /\ UNCHANGED <<variant, panels, nodes, auth, secret, config, cache, collections, rendered, lastOutcome, refs>>
  /\ UNCHANGED templateVars
  /\ UNCHANGED endpointVars

\* context.secrets.store writes the secret.
SecretsStoreWrite(h) ==
  /\ cbs[h].pc = "storing"
  /\ secret' = Str(cbs[h].key)
  /\ cbs' = [cbs EXCEPT ![h].pc = "stored"]
  /\ ev' = Event("secretsStoreWrite")
  /\ out' = <<>>
  /\ UNCHANGED <<variant, panels, nodes, auth, config, cache, collections, rendered, lastOutcome, refs>>
  /\ UNCHANGED templateVars
  /\ UNCHANGED endpointVars

\* The first .then: cache the key and start the configuration update.
CallbackStored(h) ==
  /\ cbs[h].pc = "stored"
  /\ cache' = Str(cbs[h].key)
  /\ cbs' = [cbs EXCEPT ![h].pc = "updating"]
  /\ ev' = Event("callbackStored")
  /\ out' = <<>>
  /\ UNCHANGED <<variant, panels, nodes, auth, secret, config, collections, rendered, lastOutcome, refs>>
  /\ UNCHANGED templateVars
  /\ UNCHANGED endpointVars

\* What the second .then does after the configuration update resolved.
CallbackSuccess(h) == StartRefresh("call", <<Info("API Key saved successfully!")>>)

\* The configuration update resolves; the second .then reports and refreshes.
CallbackUpdated(h) ==
  /\ cbs[h].pc = "updating"
  /\ config' = Str(cbs[h].key)
  /\ cbs' = [cbs EXCEPT ![h] = NoCallback]
  /\ CallbackSuccess(h)
  /\ ev' = [Event("callbackUpdated") EXCEPT !.key = Str(cbs[h].key)]
  /\ UNCHANGED <<variant, panels, nodes, auth, secret, cache>>
  /\ UNCHANGED templateVars
  /\ UNCHANGED endpointVars

\* A .catch that clears the cached key.
CacheRolledBack(h) == Null

\* What .catch leaves in the cache.
CacheAfterFailure(h) == cache

\* secrets.store or the configuration update rejects; .catch reports it.
CallbackFailed(h) ==
  /\ cbs[h].pc \in {"storing", "updating"}
  /\ cbs' = [cbs EXCEPT ![h] = NoCallback]
  /\ cache' = CacheAfterFailure(h)
  /\ ev' = [Event(IF cbs[h].pc = "storing" THEN "storeFailed" ELSE "updateFailed")
              EXCEPT !.key = Str(cbs[h].key)]
  /\ out' = <<Error("Failed to save API Key")>>
  /\ UNCHANGED <<variant, panels, nodes, auth, secret, config, collections, rendered, lastOutcome, refs>>
  /\ UNCHANGED templateVars
  /\ UNCHANGED endpointVars

\* -------------------------------------------------------- template browser
\* The templates the service lists, and what it answers to a create request.
Templates == <<[category |-> "person", displayName |-> "Person"],
               [category |-> "product", displayName |-> "Product"]>>

\* The value of the rowCount input as parseInt returns it: NaN or an integer.
NaN == [nan |-> TRUE, n |-> 0]
Num(n) == [nan |-> FALSE, n |-> n]

\* parseInt(text): an optional sign, then the leading decimal digits; NaN without one.
DigitChars == <<"0", "1", "2", "3", "4", "5", "6", "7", "8", "9">>
DigitVal(c) == (CHOOSE d \in 1..10 : DigitChars[d] = c) - 1
IsDigit(c) == \E d \in 1..10 : DigitChars[d] = c
RECURSIVE LeadingDigits(_)
LeadingDigits(s) ==
  IF s = <<>> \/ ~IsDigit(Head(s)) THEN <<>> ELSE <<Head(s)>> \o LeadingDigits(Tail(s))
RECURSIVE DecValue(_)
DecValue(ds) ==
  IF ds = <<>> THEN 0 ELSE 10 * DecValue(SubSeq(ds, 1, Len(ds) - 1)) + DigitVal(ds[Len(ds)])
ParseInt(text) ==
  LET signed == text # <<>> /\ Head(text) \in {"-", "+"}
      ds == LeadingDigits(IF signed THEN Tail(text) ELSE text)
  IN IF ds = <<>> THEN NaN
     ELSE Num(IF signed /\ Head(text) = "-" THEN 0 - DecValue(ds) ELSE DecValue(ds))

\* What the rowCount input can hold: nothing, or the text of a number.
CountInputs ==
  {<<>>, <<"0">>, <<"1", "0">>, <<"5", "0", "1">>, <<"1", "0", "0", "1">>, <<"1", ".", "5">>, <<"-", "1">>}

\* The largest count the create button accepts: 500 in variant 1, 1000 in variant 2.
MaxCount == IF variant = 2 THEN 1000 ELSE 500

\* The text the webview sends with showError.
ValidationMessage ==
  IF variant = 2 THEN "Please select a template and enter a valid row count (1-1000)."
  ELSE "Please select a template and enter a valid row count (1-500)."

\* A create button that lets the count 0 through.
CreateAllowedFromZero(category, count) == category # "" /\ ~count.nan /\ count.n >= 0 /\ count.n <= MaxCount

\* category && count >= 1 && count <= max; every comparison with NaN is false.
CreateAllowed(category, count) == category # "" /\ ~count.nan /\ count.n >= 1 /\ count.n <= MaxCount

\* The webview document as getWebviewContent() delivers it: the sections and the login
\* prompt are hidden, the create button is enabled, the select has only its placeholder.
InitialWebview ==
  [sections |-> FALSE, prompt |-> FALSE, disabled |-> FALSE, options |-> {}, selected |-> "", preview |-> "",
   message |-> "Please login to access templates."]
NoPanel == [panel |-> FALSE, loaded |-> FALSE, wv |-> InitialWebview]

Post(cmd) == [kind |-> "post", text |-> cmd, key |-> Null, detail |-> ""]
Request(method, what, k) == [kind |-> method, text |-> what, key |-> k, detail |-> ""]
Command(name) == [kind |-> "command", text |-> name, key |-> Null, detail |-> ""]
\* this.panel.webview on a panel handle that is null
Throw == [kind |-> "throw", text |-> "TypeError", key |-> Null, detail |-> ""]

\* A listener whose 'error' case leaves the create button as it is.
WebviewErrorKeepsButton(w, cmd, data) ==
  CASE cmd = "templates" ->
         [w EXCEPT !.sections = TRUE, !.prompt = FALSE,
                   !.options = {data[i].category : i \in 1..Len(data)}, !.selected = ""]
    [] cmd = "preview" -> [w EXCEPT !.preview = data]
    [] cmd = "createSuccess" -> [w EXCEPT !.disabled = FALSE]
    [] cmd = "error" -> [w EXCEPT !.prompt = TRUE, !.sections = FALSE, !.message = data]
    [] cmd = "noApiKey" -> [w EXCEPT !.prompt = TRUE, !.sections = FALSE]
    [] OTHER -> w

\* The window 'message' listener of the webview script.
WebviewOnMessage(w, cmd, data) ==
  CASE cmd = "templates" ->
         [w EXCEPT !.sections = TRUE, !.prompt = FALSE,
                   !.options = {data[i].category : i \in 1..Len(data)}, !.selected = ""]
    [] cmd = "preview" -> [w EXCEPT !.preview = data]
    [] cmd = "createSuccess" -> [w EXCEPT !.disabled = FALSE]
    [] cmd = "error" -> [w EXCEPT !.disabled = FALSE, !.prompt = TRUE, !.sections = FALSE, !.message = data]
    [] cmd = "noApiKey" -> [w EXCEPT !.prompt = TRUE, !.sections = FALSE]
    [] OTHER -> w

\* this.panel.webview.postMessage(...): the message reaches the webview of the panel
\* the handle points to; on a null handle the property access throws.
PostToPanel(t, cmd, data) == [t EXCEPT !.wv = WebviewOnMessage(t.wv, cmd, data)]
PostOutput(t, cmd, data) == IF t.panel THEN <<[Post(cmd) EXCEPT !.detail = data]>> ELSE <<Throw>>

\* showLoginError(): a notification, then the message to the panel.
LoginFirst == "Please login first (MockMan: Login)."
ShowLoginError(t) == <<Error(LoginFirst)>> \o PostOutput(t, "error", LoginFirst)

\* error.response?.data?.message || error.message
ErrorMessage(error) ==
  IF error.response /\ error.serverMessage # "" THEN error.serverMessage ELSE error.message

\* handleError(error, action): a notification, then the message to the panel.
HandleError(t, action, error) ==
  <<[Error(action) EXCEPT !.detail = ErrorMessage(error)]>> \o PostOutput(t, "error", ErrorMessage(error))

ErrorAction(cmd) ==
  CASE cmd = "getTemplates" -> "Error fetching templates"
    [] cmd = "getPreview" -> "Error fetching preview"
    [] OTHER -> "Error creating collection"

RequestOf(cmd, k) ==
  CASE cmd = "getTemplates" -> Request("GET", "templates", k)
    [] cmd = "getPreview" -> Request("GET", "preview", k)
    [] OTHER -> Request("POST", "create", k)

\* The switch of the message handler, entered with the key getApiKey returned; t is
\* the template browser as the step found or left it.
Dispatch(m, msg, k, t) ==
  IF msg.cmd = "login"
  THEN /\ msgs' = [msgs EXCEPT ![m] = NoMsg]
       /\ out' = <<Command("mockman.login")>>
       /\ tpl' = t
  ELSE IF msg.cmd = "showError"
  THEN /\ msgs' = [msgs EXCEPT ![m] = NoMsg]
       /\ out' = <<Error(ValidationMessage)>>
       /\ tpl' = t
  ELSE IF ~Truthy(k)
  THEN /\ msgs' = [msgs EXCEPT ![m] = NoMsg]
       /\ out' = ShowLoginError(t)
       /\ tpl' = IF t.panel THEN PostToPanel(t, "error", LoginFirst) ELSE t
  ELSE /\ msgs' = [msgs EXCEPT ![m] = [msg EXCEPT !.pc = "request", !.key = k]]
       /\ out' = <<RequestOf(msg.cmd, k)>>
       /\ tpl' = t

\* The webview posts a message; the handler runs up to the end of getApiKey's
\* synchronous part: with a cached key it goes straight into the switch.
Receive(cmd, category, count, t) ==
  LET m == Lowest({i \in MsgIds : msgs[i].pc = "unused"})
      msg == [pc |-> "getKey", cmd |-> cmd, key |-> Null, category |-> category, count |-> count, closed |-> FALSE]
  IN /\ InFlight < MaxInFlight
     /\ IF Truthy(cache)
        THEN Dispatch(m, msg, cache, t)
        ELSE /\ msgs' = [msgs EXCEPT ![m] = msg]
             /\ out' = <<>>
             /\ tpl' = t

\* getApiKey of a message handler: context.secrets.get reads the stored value.
MsgSecretsGet(m) ==
  /\ msgs[m].pc = "getKey"
  /\ msgs' = [msgs EXCEPT ![m].pc = "gotKey", ![m].key = secret]
  /\ ev' = Event("msgSecretsGet")
  /\ out' = <<>>
  /\ UNCHANGED <<variant, panels, nodes, auth, secret, config, cache, collections, rendered, lastOutcome, refs, cbs, tpl, show>>
  /\ UNCHANGED endpointVars

\* getApiKey resumes in a message handler: the value read is cached, the switch runs.
MsgGotKey(m) ==
  /\ msgs[m].pc = "gotKey"
  /\ cache' = msgs[m].key
  /\ Dispatch(m, msgs[m], msgs[m].key, tpl)
  /\ ev' = [Event("msgGotKey") EXCEPT !.key = msgs[m].key, !.cmd = msgs[m].cmd]
  /\ UNCHANGED <<variant, panels, nodes, auth, secret, config, collections, rendered, lastOutcome, refs, cbs, show>>
  /\ UNCHANGED endpointVars

\* The GET of getTemplates or getPreview resolves.
MsgGetOk(m) ==
  /\ msgs[m].pc = "request"
  /\ msgs[m].cmd \in {"getTemplates", "getPreview"}
  /\ msgs' = [msgs EXCEPT ![m] = NoMsg]
  /\ IF tpl.panel
     THEN /\ tpl' = IF msgs[m].cmd = "getTemplates" THEN PostToPanel(tpl, "templates", Templates)
                    ELSE PostToPanel(tpl, "preview", msgs[m].category)
          /\ out' = <<Post(IF msgs[m].cmd = "getTemplates" THEN "templates" ELSE "preview")>>
     ELSE /\ tpl' = tpl
          /\ out' = HandleError(tpl, ErrorAction(msgs[m].cmd), TypeError)
  /\ ev' = Event(IF msgs[m].cmd = "getTemplates" THEN "templatesOk" ELSE "previewOk")
  /\ UNCHANGED <<variant, panels, nodes, auth, secret, config, cache, collections, rendered, lastOutcome, refs, cbs, show>>
  /\ UNCHANGED endpointVars

\* What the createCollection branch does after the POST resolved, on a live panel.
CreateSucceeded(m) ==
  StartRefresh("command", <<Post("createSuccess"), Info("Collection created with documents"),
                            Command("mockman.refresh")>>)

\* The POST of createCollection resolves.
MsgCreateOk(m) ==
  /\ msgs[m].pc = "request"
  /\ msgs[m].cmd = "createCollection"
  /\ msgs' = [msgs EXCEPT ![m] = NoMsg]
  /\ IF tpl.panel
     THEN /\ tpl' = PostToPanel(tpl, "createSuccess", "")
          /\ CreateSucceeded(m)
     ELSE /\ tpl' = tpl
          /\ out' = HandleError(tpl, ErrorAction(msgs[m].cmd), TypeError)
          /\ UNCHANGED <<collections, rendered, lastOutcome, refs>>
  /\ ev' = Event("createOk")
  /\ UNCHANGED <<variant, panels, nodes, auth, secret, config, cache, cbs, show>>
  /\ UNCHANGED endpointVars

\* A request of a message handler fails: error status, transport error or timeout.
MsgRequestFail(m, error) ==
  /\ msgs[m].pc = "request"
  /\ msgs' = [msgs EXCEPT ![m] = NoMsg]
  /\ out' = HandleError(tpl, ErrorAction(msgs[m].cmd), error)
  /\ tpl' = IF tpl.panel THEN PostToPanel(tpl, "error", ErrorMessage(error)) ELSE tpl
  /\ ev' = [Event("requestFailed") EXCEPT !.cmd = msgs[m].cmd, !.error = error]
  /\ UNCHANGED <<variant, panels, nodes, auth, secret, config, cache, collections, rendered, lastOutcome, refs, cbs, show>>
  /\ UNCHANGED endpointVars

\* A show() that creates a panel whether or not one exists.
ShowPanelAlways(k) ==
  /\ tpl' = [panel |-> TRUE, loaded |-> FALSE,
             wv |-> WebviewOnMessage(InitialWebview, IF Truthy(k) THEN "getTemplates" ELSE "noApiKey", "")]
  /\ panels' = [panels EXCEPT !.templates = @ + 1]
  /\ out' = <<Post(IF Truthy(k) THEN "getTemplates" ELSE "noApiKey")>>

\* show() after getApiKey returned: reveal the panel if there is one, else create it
\* and post noApiKey or getTemplates to it.
ShowPanel(k) ==
  IF tpl.panel
  THEN /\ tpl' = tpl
       /\ panels' = panels
       /\ out' = <<>>
  ELSE /\ tpl' = [panel |-> TRUE, loaded |-> FALSE,
                  wv |-> WebviewOnMessage(InitialWebview, IF Truthy(k) THEN "getTemplates" ELSE "noApiKey", "")]
       /\ panels' = [panels EXCEPT !.templates = @ + 1]
       /\ out' = <<Post(IF Truthy(k) THEN "getTemplates" ELSE "noApiKey")>>

\* The "mockman.templates" command: show() up to the end of getApiKey's synchronous part.
TemplatesCommand ==
  /\ variant \in {1, 2}
  /\ InFlight < MaxInFlight
  /\ IF Truthy(cache)
     THEN /\ ShowPanel(cache)
          /\ show' = show
     ELSE /\ show' = [show EXCEPT ![Lowest({i \in ShowIds : show[i].pc = "unused"})] =
                        [pc |-> "getKey", key |-> Null]]
          /\ out' = <<>>
          /\ tpl' = tpl
          /\ panels' = panels
  /\ ev' = Event("templates")
  /\ UNCHANGED <<variant, nodes, auth, secret, config, cache, collections, rendered, lastOutcome, refs, cbs, msgs>>
  /\ UNCHANGED endpointVars

ShowSecretsGet(i) ==
  /\ show[i].pc = "getKey"
  /\ show' = [show EXCEPT ![i] = [pc |-> "gotKey", key |-> secret]]
  /\ ev' = Event("showSecretsGet")
  /\ out' = <<>>
  /\ UNCHANGED <<variant, panels, nodes, auth, secret, config, cache, collections, rendered, lastOutcome, refs, cbs, tpl, msgs>>
  /\ UNCHANGED endpointVars

ShowGotKey(i) ==
  /\ show[i].pc = "gotKey"
  /\ cache' = show[i].key
  /\ ShowPanel(show[i].key)
  /\ show' = [show EXCEPT ![i] = NoShow]
  /\ ev' = [Event("showGotKey") EXCEPT !.key = show[i].key]
  /\ UNCHANGED <<variant, nodes, auth, secret, config, collections, rendered, lastOutcome, refs, cbs, msgs>>
  /\ UNCHANGED endpointVars

\* The webview script runs: it registers its listeners and posts getTemplates.
WebviewLoad ==
  /\ tpl.panel /\ ~tpl.loaded
  /\ Receive("getTemplates", "", 0, [tpl EXCEPT !.loaded = TRUE])
  /\ ev' = Event("webviewLoad")
  /\ UNCHANGED <<variant, panels, nodes, auth, secret, config, cache, collections, rendered, lastOutcome, refs, cbs, show>>
  /\ UNCHANGED endpointVars

\* The user picks an entry of the template select: 'change' listener.
SelectTemplate(category) ==
  /\ tpl.panel /\ tpl.loaded /\ tpl.wv.sections
  /\ category \in tpl.wv.options \cup {""}
  /\ category # tpl.wv.selected
  /\ IF category # ""
     THEN Receive("getPreview", category, 0, [tpl EXCEPT !.wv.selected = category])
     ELSE /\ tpl' = [tpl EXCEPT !.wv.selected = category, !.wv.preview = ""]
          /\ out' = <<>>
          /\ msgs' = msgs
  /\ ev' = Event("selectTemplate")
  /\ UNCHANGED <<variant, panels, nodes, auth, secret, config, cache, collections, rendered, lastOutcome, refs, cbs, show>>
  /\ UNCHANGED endpointVars

\* The user clicks the create button: 'click' listener.
ClickCreate(text) ==
  /\ tpl.panel /\ tpl.loaded /\ tpl.wv.sections /\ ~tpl.wv.disabled
  /\ IF CreateAllowed(tpl.wv.selected, ParseInt(text))
     THEN Receive("createCollection", tpl.wv.selected, ParseInt(text).n, [tpl EXCEPT !.wv.disabled = TRUE])
     ELSE Receive("showError", "", 0, tpl)
  /\ ev' = [Event("clickCreate") EXCEPT !.category = tpl.wv.selected, !.text = text,
                                       !.cmd = IF CreateAllowed(tpl.wv.selected, ParseInt(text))
                                               THEN "createCollection" ELSE "showError"]
  /\ UNCHANGED <<variant, panels, nodes, auth, secret, config, cache, collections, rendered, lastOutcome, refs, cbs, show>>
  /\ UNCHANGED endpointVars

\* The user clicks "Login Now" in the login prompt.
ClickLogin ==
  /\ tpl.panel /\ tpl.loaded /\ tpl.wv.prompt
  /\ Receive("login", "", 0, tpl)
  /\ ev' = Event("clickLogin")
  /\ UNCHANGED <<variant, panels, nodes, auth, secret, config, cache, collections, rendered, lastOutcome, refs, cbs, show>>
  /\ UNCHANGED endpointVars

\* The user closes the template panel: onDidDispose clears the handle; the handlers
\* its webview started keep running.
DisposeTemplates ==
  /\ tpl.panel
  /\ tpl' = NoPanel
  /\ panels' = [panels EXCEPT !.templates = @ - 1]
  /\ msgs' = [m \in MsgIds |-> IF msgs[m].pc = "unused" THEN msgs[m] ELSE [msgs[m] EXCEPT !.closed = TRUE]]
  /\ ev' = Event("disposeTemplates")
  /\ out' = <<>>
  /\ UNCHANGED <<variant, nodes, auth, secret, config, cache, collections, rendered, lastOutcome, refs, cbs, show>>
  /\ UNCHANGED endpointVars

\* ---------------------------------------------------------------- tree view
\* The command of a root entry; the third variant passes null.
NoCommand == [command |-> "", arguments |-> <<>>]
ShowEndpointsOf(c) == [command |-> "mockman.showEndpoints", arguments |-> <<c>>]

\* A tree that looks the argument of an entry up by its label.
FirstNamed(cs, name) == cs[CHOOSE i \in 1..Len(cs) : cs[i].collectionName = name /\ \A j \in 1..(i - 1) : cs[j].collectionName # name]
GetChildrenByLabel(cs) ==
  [i \in 1..Len(cs) |->
     [label |-> cs[i].collectionName, collapsibleState |-> "Collapsed",
      command |-> IF variant = 3 THEN NoCommand ELSE ShowEndpointsOf(FirstNamed(cs, cs[i].collectionName))]]

\* getChildren() without an element: this.collections.map(c => new MockmanTreeItem(...)).
GetChildren(cs) ==
  [i \in 1..Len(cs) |->
     [label |-> cs[i].collectionName, collapsibleState |-> "Collapsed",
      command |-> IF variant = 3 THEN NoCommand ELSE ShowEndpointsOf(cs[i])]]

\* The root entries the tree view shows: those of the snapshot it was last told about.
Tree == GetChildren(rendered)

\* A label made of the field name alone.
FieldLabelNameOnly(f) == <<f.fieldName>>

\* The label of a field entry: `${f.fieldName} (${f.fieldType})`.
FieldLabel(f) == <<f.fieldName, " (", f.fieldType, ")">>

\* A lookup that takes the last collection of the name.
FindLast(cs, name) ==
  LET named == {i \in 1..Len(cs) : cs[i].collectionName = name}
  IN IF named = {} THEN 0 ELSE CHOOSE i \in named : \A j \in named : j <= i

\* this.collections.find(col => col.collectionName === element.label): the position of
\* the first collection of that name, 0 for undefined.
Find(cs, name) ==
  LET named == {i \in 1..Len(cs) : cs[i].collectionName = name}
  IN IF named = {} THEN 0 ELSE CHOOSE i \in named : \A j \in named : i <= j

\* getChildren(element) for a collection node, against the snapshot cs.
GetFields(cs, element) ==
  LET i == Find(cs, element.label)
  IN IF i = 0 THEN <<>>
     ELSE [j \in 1..Len(cs[i].fields) |->
             [label |-> FieldLabel(cs[i].fields[j]), collapsibleState |-> "None", command |-> NoCommand]]

\* The tree view asks for the root entries after a change event reached it.
TreeReload ==
  /\ nodes # GetChildren(collections)
  /\ nodes' = GetChildren(collections)
  /\ ev' = Event("getRoot")
  /\ out' = <<>>
  /\ UNCHANGED <<variant, panels, auth, secret, config, cache, collections, rendered, lastOutcome, refs, cbs>>
  /\ UNCHANGED <<templateVars, endpointVars>>

\* The user expands the i-th root entry the view holds: getChildren(element).
ExpandNode(i) ==
  /\ i \in 1..Len(nodes)
  /\ ev' = [Event("getChildren") EXCEPT !.node = nodes[i].label, !.prev = collections,
                                        !.children = GetFields(collections, nodes[i])]
  /\ out' = <<>>
  /\ UNCHANGED <<variant, panels, nodes, auth, secret, config, cache, collections, rendered, lastOutcome, refs, cbs>>
  /\ UNCHANGED <<templateVars, endpointVars>>


\* ------------------------------------------------------------ endpoints view
Base == "https://api.mockman.online"

\* escapeHtml, and the HTML parser reading the entities back, on the tokens of a text.
EscapeToken(t) ==
  CASE t = "&" -> "&amp;" [] t = "<" -> "&lt;" [] t = ">" -> "&gt;"
    [] t = "\"" -> "&quot;" [] t = "'" -> "&#039;" [] OTHER -> t
ParseToken(t) ==
  CASE t = "&amp;" -> "&" [] t = "&lt;" -> "<" [] t = "&gt;" -> ">"
    [] t = "&quot;" -> "\"" [] t = "&#039;" -> "'" [] OTHER -> t
EscapeHtml(text) == [i \in 1..Len(text) |-> EscapeToken(text[i])]
ParseHtml(text) == [i \in 1..Len(text) |-> ParseToken(text[i])]

\* One entry of the view: the path goes through escapeHtml into innerHTML; the URL is
\* kept by the click handler (variant 1) or written into the onclick attribute (variant 2).
Endpoint(method, path, description) ==
  [method |-> method, path |-> ParseHtml(EscapeHtml(path)), description |-> description,
   fullUrl |-> IF variant = 2 THEN ParseHtml(EscapeHtml(<<Base>> \o path)) ELSE <<Base>> \o path]

\* The collection-level entries with the by-name entry built from the id.
CollectionEndpointsById(k, c) ==
  <<Endpoint("GET", <<"/collections/">> \o k, "Get all collections"),
    Endpoint("GET", <<"/collections/">> \o k \o <<"/by-name/", c._id>>, "Get collection by name"),
    Endpoint("GET", <<"/collections/">> \o k \o <<"/", c._id>>, "Get collection by ID")>>

CollectionEndpoints(k, c) ==
  <<Endpoint("GET", <<"/collections/">> \o k, "Get all collections"),
    Endpoint("GET", <<"/collections/">> \o k \o <<"/by-name/", c.collectionName>>, "Get collection by name"),
    Endpoint("GET", <<"/collections/">> \o k \o <<"/", c._id>>, "Get collection by ID")>>

DocumentEndpoints(k, c) ==
  LET docs == <<"/collections/">> \o k \o <<"/", c._id, "/documents">>
      doc == docs \o <<"/:documentId">>
  IN <<Endpoint("POST", docs, "Add documents"),
       Endpoint("GET", docs, "Get all documents"),
       Endpoint("GET", doc, "Get document by ID"),
       Endpoint("PUT", doc, "Update document by ID"),
       Endpoint("DELETE", doc, "Delete document by ID"),
       Endpoint("DELETE", docs, "Delete all documents")>>

\* A view that lists the document level first.
EndpointsDocumentsFirst(k, c) == DocumentEndpoints(k, c) \o CollectionEndpoints(k, c)

\* The entries the 'endpoints' message handler builds, in document order.
Endpoints(k, c) == CollectionEndpoints(k, c) \o DocumentEndpoints(k, c)

\* A handler that does not clear the container before it appends.
WebviewAppends(prev, data) == prev \o Endpoints(data.apiKey.val, data.collection)

\* The webview's 'endpoints' message handler: the container is emptied and refilled.
WebviewOnEndpoints(prev, data) == Endpoints(data.apiKey.val, data.collection)

\* this.panel.webview.postMessage({command: "endpoints", data: {collection, apiKey}})
PostEndpoints(e, data) == [e EXCEPT !.data = data, !.entries = WebviewOnEndpoints(e.entries, data)]


\* updateContent(collection) up to the end of getApiKey's synchronous part, on the
\* endpoints view e as show() left it.
UpdateContent(e, c) ==
  IF Truthy(cache)
  THEN /\ ep' = PostEndpoints(e, [collection |-> c, apiKey |-> cache])
       /\ out' = <<Post("endpoints")>>
       /\ upds' = upds
  ELSE /\ ep' = e
       /\ out' = <<>>
       /\ upds' = [upds EXCEPT ![Lowest({u \in UpdateIds : upds[u].pc = "unused"})] =
                     [pc |-> "getKey", collection |-> c, key |-> Null]]

\* show(collection): retitle and reveal the panel there is, or create one; then updateContent.
EndpointsShow(c) ==
  LET title == <<"Endpoints for ", c.collectionName>>
  IN IF ep.panel
     THEN /\ panels' = panels
          /\ UpdateContent([ep EXCEPT !.title = title], c)
     ELSE /\ panels' = [panels EXCEPT !.endpoints = @ + 1]
          /\ UpdateContent([panel |-> TRUE, title |-> title, data |-> NoData, entries |-> <<>>], c)

\* The user clicks root entry i of the tree: its command runs with its arguments.
ShowEndpoints(i) ==
  /\ variant \in {1, 2}
  /\ i \in 1..Len(Tree)
  /\ Tree[i].command.command = "mockman.showEndpoints"
  /\ InFlight < MaxInFlight
  /\ EndpointsShow(Tree[i].command.arguments[1])
  /\ ev' = [Event("showEndpoints") EXCEPT !.category = Tree[i].label,
                                         !.view = [data |-> ep.data, entries |-> ep.entries]]
  /\ UNCHANGED <<variant, nodes, auth, secret, config, cache, collections, rendered, lastOutcome, refs, cbs>>
  /\ UNCHANGED <<templateVars, clips, clipboard>>

\* "mockman.showEndpoints" run without a collection, as from the command palette.
ShowEndpointsNoArgument ==
  /\ variant \in {1, 2}
  /\ out' = <<Error("No collection selected.")>>
  /\ ev' = Event("showEndpointsNoArgument")
  /\ UNCHANGED <<variant, panels, nodes, auth, secret, config, cache, collections, rendered, lastOutcome, refs, cbs>>
  /\ UNCHANGED <<templateVars, endpointVars>>

\* getApiKey of updateContent: context.secrets.get reads the stored value.
UpdateSecretsGet(u) ==
  /\ upds[u].pc = "getKey"
  /\ upds' = [upds EXCEPT ![u].pc = "gotKey", ![u].key = secret]
  /\ ev' = Event("updateSecretsGet")
  /\ out' = <<>>
  /\ UNCHANGED <<variant, panels, nodes, auth, secret, config, cache, collections, rendered, lastOutcome, refs, cbs>>
  /\ UNCHANGED <<templateVars, ep, clips, clipboard>>

\* getApiKey resumes in updateContent: without a key or a panel it returns, else it posts.
UpdateGotKey(u) ==
  /\ upds[u].pc = "gotKey"
  /\ cache' = upds[u].key
  /\ upds' = [upds EXCEPT ![u] = NoUpdate]
  /\ IF ~Truthy(upds[u].key) \/ ~ep.panel
     THEN /\ ep' = ep
          /\ out' = <<>>
     ELSE /\ ep' = PostEndpoints(ep, [collection |-> upds[u].collection, apiKey |-> upds[u].key])
          /\ out' = <<Post("endpoints")>>
  /\ ev' = [Event("updateGotKey") EXCEPT !.key = upds[u].key,
                                        !.view = [data |-> ep.data, entries |-> ep.entries]]
  /\ UNCHANGED <<variant, panels, nodes, auth, secret, config, collections, rendered, lastOutcome, refs, cbs>>
  /\ UNCHANGED <<templateVars, clips, clipboard>>

\* The Content-Security-Policy of the webview documents is script-src 'nonce-...' without
\* 'unsafe-inline': handlers written as onclick attributes are not run.
InlineHandlers == FALSE

\* How often a click on an entry ("entry") or on its copy button ("button") calls
\* copyToClipboard. Variant 1 sets the entry's onclick as a property and the button's as an
\* attribute that stops the propagation; variant 2 writes both as attributes.
Copies(target) ==
  IF variant = 2 THEN (IF InlineHandlers THEN 1 ELSE 0)
  ELSE IF target = "entry" THEN 1
  ELSE IF InlineHandlers THEN 1   \* the attribute handler runs and stops the propagation
  ELSE 1                          \* the click bubbles to the entry's handler

Write(url) == [kind |-> "clipboard", text |-> "", key |-> Str(url), detail |-> ""]

\* The user clicks entry i or its copy button; copyToClipboard starts the clipboard write
\* (in the host on the copyToClipboard message in variant 1, in the webview in variant 2).
ClickEndpoint(i, target) ==
  /\ variant \in {1, 2}
  /\ ep.panel /\ i \in 1..Len(ep.entries)
  /\ IF Copies(target) = 0
     THEN /\ clips' = clips
          /\ out' = <<>>
     ELSE /\ InFlight < MaxInFlight
          /\ clips' = [clips EXCEPT ![Lowest({c \in ClipIds : clips[c].pc = "unused"})] =
                         [pc |-> "writing", text |-> ep.entries[i].fullUrl]]
          /\ out' = <<Write(ep.entries[i].fullUrl)>>
  /\ ev' = [Event("clickEndpoint") EXCEPT !.category = target, !.text = ep.entries[i].fullUrl]
  /\ UNCHANGED <<variant, panels, nodes, auth, secret, config, cache, collections, rendered, lastOutcome, refs, cbs>>
  /\ UNCHANGED <<templateVars, ep, upds, clipboard>>

\* The clipboard write settles. Variant 1 reports from the host; in variant 2 the webview
\* posts showInfo or showError, which reaches the host while the panel lives.
ClipboardSettles(c, ok) ==
  /\ clips[c].pc = "writing"
  /\ clips' = [clips EXCEPT ![c] = NoClip]
  /\ clipboard' = IF ok THEN clips[c].text ELSE clipboard
  /\ out' = IF variant = 2 /\ ~ep.panel THEN <<>>
            ELSE IF ok THEN <<Info("Endpoint copied to clipboard!")>>
            ELSE <<Error("Failed to copy endpoint.")>>
  /\ ev' = [Event(IF ok THEN "clipboardOk" ELSE "clipboardFailed") EXCEPT !.text = clips[c].text]
  /\ UNCHANGED <<variant, panels, nodes, auth, secret, config, cache, collections, rendered, lastOutcome, refs, cbs>>
  /\ UNCHANGED <<templateVars, ep, upds>>

\* The user closes the endpoints panel: onDidDispose clears the handle.
DisposeEndpoints ==
  /\ ep.panel
  /\ ep' = NoEndpoints
  /\ panels' = [panels EXCEPT !.endpoints = @ - 1]
  /\ ev' = Event("disposeEndpoints")
  /\ out' = <<>>
  /\ UNCHANGED <<variant, nodes, auth, secret, config, cache, collections, rendered, lastOutcome, refs, cbs>>
  /\ UNCHANGED <<templateVars, upds, clips, clipboard>>

\* ------------------------------------------- sign-up and login by prompts
\* What showInputBox resolves to: undefined when cancelled, else the text typed.
PromptInputs == {Null, Str(<<>>), Str(<<"x">>)}

\* The prompts of a command: username, email and password, or email and password.
Prompts(command) == IF command = "signup" THEN 1..3 ELSE 1..2

\* Bodies of the responses of /auth/sign-up and /auth/login: data.apiSecretKey missing,
\* empty or a key.
AuthResponses == {Null, Str(<<>>), Str(<<"a">>)}

\* The notifications of the two commands.
AuthMessage(command, what) ==
  CASE what = "required" ->
         IF command = "signup" THEN "All fields are required!" ELSE "Email and Password required!"
    [] what = "notReceived" ->
         IF command = "signup" THEN "Sign Up failed: API Key not received."
         ELSE "Login failed: API Key not received."
    [] what = "caught" -> IF command = "signup" THEN "Sign Up Error: " ELSE "Login Error: "
    [] OTHER ->
         IF command = "signup" THEN "Account created & Logged in successfully!"
         ELSE "Logged in successfully! API Key saved."

\* A test that takes any string for a key.
KeyReceivedAnyString(key) == key.present

\* if (res.data.apiSecretKey)
KeyReceived(key) == Truthy(key)

\* "mockman.signup" / "mockman.login": the prompts are answered with fields; the POST is
\* sent when none of them is falsy.
AuthCommand(command, fields) ==
  /\ variant = 3
  /\ IF \E i \in Prompts(command) : ~Truthy(fields[i])
     THEN /\ out' = <<Error(AuthMessage(command, "required"))>>
          /\ auth' = auth
     ELSE /\ InFlight < MaxInFlight
          /\ auth' = [auth EXCEPT ![Lowest({a \in AuthIds : auth[a].pc = "unused"})] =
                        [pc |-> "post", command |-> command, key |-> Null]]
          /\ out' = <<Request("POST", command, Null)>>
  /\ ev' = [Event("authCommand") EXCEPT !.cmd = command, !.fields = fields]
  /\ UNCHANGED <<variant, panels, nodes, secret, config, cache, collections, rendered, lastOutcome, refs, cbs>>
  /\ UNCHANGED <<templateVars, endpointVars>>

\* The POST resolves with a body whose apiSecretKey is key: the configuration update
\* starts, or the missing key is reported.
AuthResponse(a, key) ==
  /\ auth[a].pc = "post"
  /\ IF KeyReceived(key)
     THEN /\ auth' = [auth EXCEPT ![a].pc = "update", ![a].key = key]
          /\ out' = <<>>
     ELSE /\ auth' = [auth EXCEPT ![a] = NoAuth]
          /\ out' = <<Error(AuthMessage(auth[a].command, "notReceived"))>>
  /\ ev' = [Event("authResponse") EXCEPT !.cmd = auth[a].command, !.key = key]
  /\ UNCHANGED <<variant, panels, nodes, secret, config, cache, collections, rendered, lastOutcome, refs, cbs>>
  /\ UNCHANGED <<templateVars, endpointVars>>

\* The POST rejects: catch reports error.message.
AuthPostFail(a, error) ==
  /\ auth[a].pc = "post"
  /\ auth' = [auth EXCEPT ![a] = NoAuth]
  /\ out' = <<[Error(AuthMessage(auth[a].command, "caught")) EXCEPT !.detail = error.message]>>
  /\ ev' = [Event("authPostFail") EXCEPT !.cmd = auth[a].command, !.error = error]
  /\ UNCHANGED <<variant, panels, nodes, secret, config, cache, collections, rendered, lastOutcome, refs, cbs>>
  /\ UNCHANGED <<templateVars, endpointVars>>

\* getConfiguration().update writes the setting while the command is suspended.
AuthConfigWrite(a) ==
  /\ auth[a].pc = "update"
  /\ config' = auth[a].key
  /\ auth' = [auth EXCEPT ![a].pc = "updated"]
  /\ out' = <<>>
  /\ ev' = [Event("authConfigWrite") EXCEPT !.cmd = auth[a].command, !.key = auth[a].key]
  /\ UNCHANGED <<variant, panels, nodes, secret, cache, collections, rendered, lastOutcome, refs, cbs>>
  /\ UNCHANGED <<templateVars, endpointVars>>

\* The update resolved: the success message, then provider.refresh(), not awaited.
AuthUpdated(a) ==
  /\ auth[a].pc = "updated"
  /\ auth' = [auth EXCEPT ![a] = NoAuth]
  /\ StartRefresh("call", <<Info(AuthMessage(auth[a].command, "success"))>>)
  /\ ev' = [Event("authUpdated") EXCEPT !.cmd = auth[a].command, !.key = auth[a].key]
  /\ UNCHANGED <<variant, panels, nodes, secret, config, cache, cbs>>
  /\ UNCHANGED <<templateVars, endpointVars>>

\* The update rejects before it wrote: catch reports error.message.
AuthConfigFail(a) ==
  /\ auth[a].pc = "update"
  /\ auth' = [auth EXCEPT ![a] = NoAuth]
  /\ out' = <<[Error(AuthMessage(auth[a].command, "caught")) EXCEPT !.detail = "Unable to write to User Settings"]>>
  /\ ev' = [Event("authConfigFail") EXCEPT !.cmd = auth[a].command, !.key = auth[a].key]
  /\ UNCHANGED <<variant, panels, nodes, secret, config, cache, collections, rendered, lastOutcome, refs, cbs>>
  /\ UNCHANGED <<templateVars, endpointVars>>

\* ------------------------------------------------------------ specification
\* The provider, the URI handler and the commands of variant 2 are the text of variant 1.
InitVariant(v) ==
  /\ variant = v
  /\ secret \in (IF v = 3 THEN {Null} ELSE {Null, StoredKey})
  /\ config \in (IF v = 3 THEN {Null, StoredKey} ELSE {secret})
  /\ cache = Null
  /\ collections = <<>>
  /\ rendered = <<>>
  /\ lastOutcome = <<>>
  \* activate() of variants 1 and 2 ends with provider.refresh(); the cache is empty then
  /\ refs = [r \in RefreshIds |->
               IF r = 1 /\ v # 3 THEN [NoRefresh EXCEPT !.pc = "getKey", !.origin = "call"]
               ELSE NoRefresh]
  /\ cbs = [h \in CallbackIds |-> NoCallback]
  /\ tpl = NoPanel
  /\ msgs = [m \in MsgIds |-> NoMsg]
  /\ show = [i \in ShowIds |-> NoShow]
  /\ ep = NoEndpoints
  /\ upds = [u \in UpdateIds |-> NoUpdate]
  /\ clips = [c \in ClipIds |-> NoClip]
  /\ clipboard = <<>>
  /\ panels = [endpoints |-> 0, templates |-> 0]
  /\ nodes = <<>>
  /\ auth = [a \in AuthIds |-> NoAuth]
  /\ ev = Event("activate")
  /\ out = <<>>

Init == \E v \in {1, 3} : InitVariant(v)

RefreshSteps ==
  \/ \E r \in RefreshIds : RefreshSecretsGet(r)
  \/ \E r \in RefreshIds : RefreshGotKey(r)
  \/ \E r \in RefreshIds, body \in Bodies : RefreshFetchOk(r, body)
  \/ \E r \in RefreshIds : RefreshFetchFail(r)

CallbackSteps ==
  \/ \E h \in CallbackIds : SecretsStoreWrite(h)
  \/ \E h \in CallbackIds : CallbackStored(h)
  \/ \E h \in CallbackIds : CallbackUpdated(h)
  \/ \E h \in CallbackIds : CallbackFailed(h)

Next ==
  \/ RefreshCommand
  \/ RefreshSteps
  \/ \E uri \in CoreUris : HandleUri(uri)
  \/ CallbackSteps

Spec == Init /\ [][Next]_vars

\* Every pending promise settles: secrets.get and secrets.store answer, the GET ends
\* in a response, an error or its timeout, the configuration update resolves or rejects.
Fairness ==
  /\ \A r \in RefreshIds : WF_vars(RefreshSecretsGet(r))
  /\ \A r \in RefreshIds : WF_vars(RefreshGotKey(r))
  /\ \A r \in RefreshIds : WF_vars(RefreshFetchFail(r) \/ \E body \in Bodies : RefreshFetchOk(r, body))
  /\ \A h \in CallbackIds : WF_vars(SecretsStoreWrite(h) \/ CallbackFailed(h))
  /\ \A h \in CallbackIds : WF_vars(CallbackStored(h))
  /\ \A h \in CallbackIds : WF_vars(CallbackUpdated(h) \/ CallbackFailed(h))

FairSpec == Spec /\ Fairness

\* The URI handler on the full range of callback URIs, in variant 1.
UriNext ==
  \/ \E uri \in Uris : HandleUri(uri)
  \/ CallbackSteps
  \/ RefreshSteps

UriSpec == InitVariant(1) /\ [][UriNext]_vars

\* The template browser of variants 1 and 2 next to the refresh operations.
TemplateSteps ==
  \/ TemplatesCommand
  \/ \E i \in ShowIds : ShowSecretsGet(i)
  \/ \E i \in ShowIds : ShowGotKey(i)
  \/ WebviewLoad
  \/ \E category \in {Templates[i].category : i \in 1..Len(Templates)} \cup {""} : SelectTemplate(category)
  \/ \E text \in CountInputs : ClickCreate(text)
  \/ ClickLogin
  \/ DisposeTemplates
  \/ \E m \in MsgIds : MsgSecretsGet(m)
  \/ \E m \in MsgIds : MsgGotKey(m)
  \/ \E m \in MsgIds : MsgGetOk(m)
  \/ \E m \in MsgIds : MsgCreateOk(m)
  \/ \E m \in MsgIds, error \in Errors : MsgRequestFail(m, error)

TemplateNext ==
  \/ TemplateSteps
  \/ RefreshCommand
  \/ RefreshSteps

TemplateSpec == (\E v \in {1, 2} : InitVariant(v)) /\ [][TemplateNext]_vars

\* Every pending promise of the template browser settles and the webview script runs;
\* the user keeps using what the panel offers: "Login Now" and the templates command.
TemplateFairness ==
  /\ \A i \in ShowIds : WF_vars(ShowSecretsGet(i)) /\ WF_vars(ShowGotKey(i))
  /\ WF_vars(WebviewLoad)
  /\ \A m \in MsgIds : WF_vars(MsgSecretsGet(m))
  /\ \A m \in MsgIds : WF_vars(MsgGotKey(m))
  /\ \A m \in MsgIds : WF_vars(MsgGetOk(m) \/ MsgCreateOk(m) \/ \E error \in Errors : MsgRequestFail(m, error))
  /\ \A r \in RefreshIds : WF_vars(RefreshSecretsGet(r))
  /\ \A r \in RefreshIds : WF_vars(RefreshGotKey(r))
  /\ \A r \in RefreshIds : WF_vars(RefreshFetchFail(r) \/ \E body \in Bodies : RefreshFetchOk(r, body))
  /\ WF_vars(ClickLogin) /\ WF_vars(TemplatesCommand)

FairTemplateSpec == TemplateSpec /\ TemplateFairness


\* Opening, loading and closing the template browser of variant 1 next to the login
\* callback that stores a key.
LoginUri == [path |-> "/callback", query |-> GoodQuery]
TimedOut == [response |-> FALSE, serverMessage |-> "", message |-> "timeout of 5000ms exceeded"]
LoginNext ==
  \/ TemplatesCommand
  \/ \E i \in ShowIds : ShowSecretsGet(i)
  \/ \E i \in ShowIds : ShowGotKey(i)
  \/ WebviewLoad
  \/ ClickLogin
  \/ DisposeTemplates
  \/ \E m \in MsgIds : MsgSecretsGet(m)
  \/ \E m \in MsgIds : MsgGotKey(m)
  \/ \E m \in MsgIds : MsgGetOk(m)
  \/ \E m \in MsgIds : MsgRequestFail(m, TimedOut)
  \/ HandleUri(LoginUri)
  \/ CallbackSteps
  \/ RefreshSteps

LoginSpec == InitVariant(1) /\ [][LoginNext]_vars
FairLoginSpec == LoginSpec /\ Fairness /\ TemplateFairness

\* Clicks in the endpoints view of variants 1 and 2, next to the refresh at activation.
\* The tree has entries only after a fetch, which leaves the key cached, and nothing here
\* replaces it: updateContent() never suspends in getApiKey. The user clicks the by-name
\* entry, the by-id entry and a single-document entry.
ClickedEntries == {2, 3, 6}
EndpointNext ==
  \/ \E i \in 1..3 : ShowEndpoints(i)
  \/ \E i \in ClickedEntries, target \in {"entry", "button"} : ClickEndpoint(i, target)
  \/ \E c \in ClipIds, ok \in BOOLEAN : ClipboardSettles(c, ok)
  \/ DisposeEndpoints
  \/ RefreshSteps

EndpointSpec == (\E v \in {1, 2} : InitVariant(v)) /\ [][EndpointNext]_vars

\* Building the endpoints view of variants 1 and 2 next to refreshes and the login
\* callback, whose stale reads can empty the cached key while the tree has entries.
CatalogNext ==
  \/ \E i \in 1..3 : ShowEndpoints(i)
  \/ ShowEndpointsNoArgument
  \/ \E u \in UpdateIds : UpdateSecretsGet(u)
  \/ \E u \in UpdateIds : UpdateGotKey(u)
  \/ DisposeEndpoints
  \/ RefreshSteps
  \/ HandleUri(LoginUri)
  \/ CallbackSteps

CatalogSpec == (\E v \in {1, 2} : InitVariant(v)) /\ [][CatalogNext]_vars

\* Expanding collection nodes of the tree, in variants 1 and 3, next to refreshes that
\* replace the snapshot the nodes were made from.
TreeNext ==
  \/ RefreshCommand
  \/ RefreshSteps
  \/ TreeReload
  \/ \E i \in 1..3 : ExpandNode(i)

TreeSpec == Init /\ [][TreeNext]_vars

\* Opening and closing both panels of variants 1 and 2, with and without a stored key:
\* without one every show() of the template browser suspends in getApiKey.
PanelNext ==
  \/ TemplatesCommand
  \/ \E i \in ShowIds : ShowSecretsGet(i)
  \/ \E i \in ShowIds : ShowGotKey(i)
  \/ DisposeTemplates
  \/ \E i \in 1..3 : ShowEndpoints(i)
  \/ DisposeEndpoints
  \/ RefreshCommand
  \/ RefreshSteps

PanelSpec == (\E v \in {1, 2} : InitVariant(v)) /\ [][PanelNext]_vars

\* Creating collections from the template browser of variant 1: the user opens and
\* closes the panel, picks a template and clicks create with a count inside or outside
\* the range; requests succeed or time out.
CreateNext ==
  \/ TemplatesCommand
  \/ \E i \in ShowIds : ShowSecretsGet(i)
  \/ \E i \in ShowIds : ShowGotKey(i)
  \/ WebviewLoad
  \/ SelectTemplate(Templates[1].category)
  \/ \E text \in {<<"1", "0">>, <<"5", "0", "1">>} : ClickCreate(text)
  \/ DisposeTemplates
  \/ \E m \in MsgIds : MsgSecretsGet(m)
  \/ \E m \in MsgIds : MsgGotKey(m)
  \/ \E m \in MsgIds : MsgGetOk(m)
  \/ \E m \in MsgIds : MsgCreateOk(m)
  \/ \E m \in MsgIds : MsgRequestFail(m, TimedOut)
  \/ RefreshSteps

CreateSpec == InitVariant(1) /\ [][CreateNext]_vars

\* Every pending promise settles and the webview script runs.
CreateFairness ==
  /\ \A i \in ShowIds : WF_vars(ShowSecretsGet(i)) /\ WF_vars(ShowGotKey(i))
  /\ WF_vars(WebviewLoad)
  /\ \A m \in MsgIds : WF_vars(MsgSecretsGet(m))
  /\ \A m \in MsgIds : WF_vars(MsgGotKey(m))
  /\ \A m \in MsgIds : WF_vars(MsgGetOk(m) \/ MsgCreateOk(m) \/ MsgRequestFail(m, TimedOut))
  /\ \A r \in RefreshIds : WF_vars(RefreshSecretsGet(r))
  /\ \A r \in RefreshIds : WF_vars(RefreshGotKey(r))
  /\ \A r \in RefreshIds : WF_vars(RefreshFetchFail(r) \/ \E body \in Bodies : RefreshFetchOk(r, body))

FairCreateSpec == CreateSpec /\ CreateFairness

\* The third variant: sign-up and login by prompts next to the refresh command.
AuthNext ==
  \/ \E command \in {"signup", "login"} : \E fields \in [Prompts(command) -> PromptInputs] : AuthCommand(command, fields)
  \/ \E a \in AuthIds, key \in AuthResponses : AuthResponse(a, key)
  \/ \E a \in AuthIds : AuthPostFail(a, TimedOut)
  \/ \E a \in AuthIds : AuthConfigWrite(a)
  \/ \E a \in AuthIds : AuthUpdated(a)
  \/ \E a \in AuthIds : AuthConfigFail(a)
  \/ RefreshCommand
  \/ \E r \in RefreshIds, body \in Bodies : RefreshFetchOk(r, body)
  \/ \E r \in RefreshIds : RefreshFetchFail(r)

AuthSpec == InitVariant(3) /\ [][AuthNext]_vars

\* ------------------------------------------------------------------ claims
\* A well-formed callback as the specification words it: the path is exactly the
\* callback path and the apikey parameter is a non-empty lowercase-hex string.
LowerHex == {"0", "1", "2", "3", "4", "5", "6", "7", "8", "9", "a", "b", "c", "d", "e", "f"}
WellFormed(uri) ==
  /\ uri.path = "/callback"
  /\ \E i \in 1..Len(uri.query) :
       /\ uri.query[i][1] = "apikey"
       /\ \A j \in 1..(i - 1) : uri.query[j][1] # "apikey"
       /\ uri.query[i][2] # <<>>
       /\ \A c \in 1..Len(uri.query[i][2]) : uri.query[i][2][c] \in LowerHex

\* The value of the first apikey parameter of a URI that has one.
KeyOf(uri) ==
  uri.query[CHOOSE i \in 1..Len(uri.query) :
              uri.query[i][1] = "apikey" /\ \A j \in 1..(i - 1) : uri.query[j][1] # "apikey"][2]

Stores == {secret, config, cache}
Gets(s) == {i \in 1..Len(s) : s[i].kind = "GET"}
Started(h) == cbs[h].pc = "unused" /\ cbs'[h].pc # "unused"

\* A step writes a key only on behalf of a callback chain that a well-formed URI
\* started (or copies the stored secret into the cache); other URIs get an error.
C1_Step ==
  /\ \A h \in CallbackIds :
       Started(h) => /\ ev'.op = "handleUri"
                     /\ WellFormed(ev'.uri)
                     /\ cbs'[h].key = KeyOf(ev'.uri)
  /\ secret' # secret => \E h \in CallbackIds : cbs[h].pc = "storing" /\ secret' = Str(cbs[h].key)
  /\ config' # config => \E h \in CallbackIds : cbs[h].pc = "updating" /\ config' = Str(cbs[h].key)
  /\ cache' # cache => \/ \E h \in CallbackIds : cbs[h].pc = "stored" /\ cache' = Str(cbs[h].key)
                       \/ ev'.op = "refreshGotKey" /\ cache' = ev'.key
  /\ (ev'.op = "handleUri" /\ ~WellFormed(ev'.uri)) => Count(out', "error") = 1
\* No stored or cached key is malformed; none is one of the keys the specification rejects.
C1_KeysHex ==
  /\ \A k \in Stores : k.present => \A c \in 1..Len(k.val) : k.val[c] \in LowerHex
  /\ \A k \in Stores : k # Str(<<"A", "B", "C", "1", "2", "3">>) /\ k # Str(<<>>) /\ k # Str(<<"1", "2", "g", "4">>)
  /\ \A r \in RefreshIds : refs[r].key.present => \A c \in 1..Len(refs[r].key.val) : refs[r].key.val[c] \in LowerHex

\* C1: a key reaches secret storage, the configuration or the provider's cache only
\* through a callback chain that a well-formed URI started, and it is that URI's key;
\* every other URI ("ABC123", "", "12g4", another path) starts no chain, is never
\* persisted and gets an error report.
C1_OnlyWellFormedKeysPersisted == []C1_KeysHex /\ [][C1_Step]_vars

\* C1 witness: a callback chain has written its key to all three places.
C1_Witness ==
  /\ ev.op = "callbackUpdated"
  /\ secret = ev.key /\ config = ev.key /\ cache = ev.key
  /\ ev.key = Str(<<"a">>)

\* C2: a URI with another path or a malformed key produces exactly one error and
\* changes nothing: not the stored credential, the cached key or the snapshot; it
\* starts no refresh and no request.
C2_RejectChangesNothing ==
  [][(ev'.op = "handleUri" /\ ~WellFormed(ev'.uri)) =>
        /\ Len(out') = 1 /\ out'[1].kind = "error"
        /\ UNCHANGED <<secret, config, cache, collections, rendered, refs, cbs>>]_vars

\* C2 witness: a rejected URI arrived while a credential and a snapshot were held.
C2_Witness ==
  /\ ev.op = "handleUri" /\ ~WellFormed(ev.uri)
  /\ ev.uri.path = "/callback"
  /\ Truthy(secret) /\ Truthy(cache) /\ collections # <<>>

\* C3 (as claimed): when the second .then of an accepted callback runs, the key is
\* persisted and cached, success is reported, and the refresh it triggers fetches with
\* the key that callback stored.
C3_RefreshUsesStoredKey ==
  ev.op = "callbackUpdated" =>
    /\ config = ev.key
    /\ Count(out, "info") = 1
    /\ \A i \in Gets(out) : out[i].key = ev.key

\* C4: when secrets.store or the configuration update fails, exactly one failure
\* message is shown, no success message, no refresh and no request follow (the chain
\* ends), and the cache keeps the value it had.
C4_FailureKeepsCache ==
  [][ev'.op \in {"storeFailed", "updateFailed"} =>
        /\ Len(out') = 1 /\ out'[1].kind = "error"
        /\ cache' = cache
        /\ refs' = refs
        /\ \E h \in CallbackIds : cbs[h].pc # "unused" /\ cbs' = [cbs EXCEPT ![h] = NoCallback]
        /\ UNCHANGED <<secret, config, collections>>]_vars

\* C4 witness: the configuration update failed and the cache still holds the new key,
\* which the configuration does not.
C4_Witness ==
  /\ ev.op = "updateFailed"
  /\ cache = ev.key /\ secret = ev.key /\ config # ev.key

\* A step in which refresh() found no API key.
NoKeyFound ==
  \/ ev.op = "refreshGotKey" /\ ~Truthy(ev.key)
  \/ variant = 3 /\ ev.op = "refresh" /\ ~Truthy(config)

\* C5 (as claimed): a refresh that finds no credential ends with an empty snapshot,
\* issues no request and reports no error, in every variant.
C5_NoKeyNoError ==
  NoKeyFound => collections = <<>> /\ Gets(out) = {} /\ Count(out, "error") = 0

\* C5 (amended): a refresh that finds no credential ends with an empty snapshot and
\* issues no request in every variant; variants 1 and 2 report no error, variant 3
\* reports one "Please login first" error.
C5_NoKeyEmptySnapshot ==
  NoKeyFound =>
    /\ collections = <<>>
    /\ Gets(out) = {}
    /\ \A r \in RefreshIds : refs[r].pc = "fetch" => Truthy(refs[r].key)
    /\ Count(out, "error") = (IF variant = 3 THEN 1 ELSE 0)

\* C5 witness: the refresh command ran with no credential anywhere and ended quietly.
C5_Witness ==
  /\ NoKeyFound /\ variant = 1
  /\ ~secret.present /\ ~cache.present /\ ~config.present
  /\ out = <<Fire, Info("Collections refreshed!")>>

\* C6: a failed GET leaves the snapshot empty whatever it held, with exactly one error
\* report for that refresh: one in the failing step, none in its earlier steps.
C6_FailureClears ==
  /\ ev.op = "refreshFetchFail" => collections = <<>> /\ Count(out, "error") = 1
  /\ (ev.op \in {"refresh", "refreshSecretsGet", "refreshGotKey"} /\ ~NoKeyFound) => Count(out, "error") = 0

\* C6 witness: a GET failed while the snapshot held collections.
C6_Witness == ev.op = "refreshFetchFail" /\ Len(ev.prev) = 3 /\ collections = <<>>

\* C7: a successful GET replaces the snapshot by the response body, by the empty
\* sequence for a falsy body, and reports no error.
C7_SuccessReplaces ==
  ev.op = "refreshFetchOk" =>
    /\ collections = (IF ev.body.falsy THEN <<>> ELSE ev.body.items)
    /\ Count(out, "error") = 0

\* C7 witness: a one-collection response replaced a three-collection snapshot.
C7_Witness == ev.op = "refreshFetchOk" /\ Len(ev.prev) = 3 /\ Len(collections) = 1

\* A step that ends an invocation of refresh().
Completes == NoKeyFound \/ ev.op \in {"refreshFetchOk", "refreshFetchFail"}

\* The change event fires once in the last step of a refresh, with the tree reading
\* the final snapshot, and in no other step.
C8_Once ==
  /\ Completes => Count(out, "fire") = 1 /\ rendered = collections
  /\ ~Completes => Count(out, "fire") = 0

\* C8: every invocation of refresh() ends, and fires the change event exactly once:
\* in its last step, after the snapshot took its final value, on each outcome (no
\* credential, fetch success, fetch failure), and in no earlier step.
C8_FiresOnce ==
  /\ []C8_Once
  /\ \A r \in RefreshIds : (refs[r].pc # "unused") ~> (refs[r].pc = "unused")

\* C8 witness: a refresh ended in a failed GET and fired.
C8_Witness == ev.op = "refreshFetchFail" /\ Count(out, "fire") = 1 /\ Count(out, "info") = 1

\* C9: in every state the snapshot is the outcome of the refresh that completed last,
\* and the tree has been told of it.
C9_SnapshotIsLastCompleted == collections = lastOutcome /\ rendered = collections

\* C9 witness: a refresh completed with collections while another one, which will
\* complete later, was still waiting for its response.
C9_Witness ==
  /\ ev.op = "refreshFetchOk" /\ collections # <<>> /\ ev.prev # <<>> /\ ev.prev # collections
  /\ \E r \in RefreshIds : refs[r].pc = "fetch"

\* C10 (as claimed): every createCollection POST that returns successfully is followed
\* by the success report and by the refresh command, whatever happened to the panel
\* while the request was in flight.
C10_CreateReportedAndRefreshed ==
  ev.op = "createOk" =>
    /\ Count(out, "info") = 1
    /\ Count(out, "command") = 1
    /\ Count(out, "error") = 0 /\ Count(out, "throw") = 0


\* The range of counts of a variant, and a click whose category and count may create.
RangeOf(v) == IF v = 2 THEN 1..1000 ELSE 1..500
ValidCreate(category, text) ==
  category # "" /\ ~ParseInt(text).nan /\ ParseInt(text).n \in RangeOf(variant)
Posts(s) == {i \in 1..Len(s) : s[i].kind = "POST"}
RangeError ==
  [kind |-> "error", key |-> Null, detail |-> "",
   text |-> IF variant = 2 THEN "Please select a template and enter a valid row count (1-1000)."
            ELSE "Please select a template and enter a valid row count (1-500)."]

\* Every createCollection message carries a selected category and a count of the
\* variant's range, and a POST is issued only for such a message.
C11_Messages ==
  /\ \A m \in MsgIds : msgs[m].cmd = "createCollection" =>
        msgs[m].category # "" /\ msgs[m].count \in RangeOf(variant)
  /\ Posts(out) # {} =>
        /\ Cardinality(Posts(out)) = 1
        /\ \E m \in MsgIds : msgs[m].cmd = "createCollection" /\ msgs[m].pc = "request"
  /\ ev.op = "msgGotKey" /\ ev.cmd = "showError" => out = <<RangeError>>

\* A click with an empty category or a count outside the range adds no createCollection
\* message and issues no POST: the range error is shown, or its showError message waits
\* for the key; a click with a valid pair adds the createCollection message.
C11_Click ==
  ev'.op = "clickCreate" =>
    IF ValidCreate(ev'.category, ev'.text)
    THEN \E m \in MsgIds :
           /\ msgs[m].pc = "unused" /\ msgs'[m].cmd = "createCollection"
           /\ msgs'[m].category = ev'.category /\ msgs'[m].count = ParseInt(ev'.text).n
    ELSE /\ \A m \in MsgIds : msgs'[m].cmd = "createCollection" => msgs'[m] = msgs[m]
         /\ Posts(out') = {}
         /\ \/ out' = <<RangeError>> /\ msgs' = msgs
            \/ /\ out' = <<>>
               /\ \E m \in MsgIds : msgs[m].pc = "unused" /\ msgs'[m].cmd = "showError"

\* C11: a createCollection message is sent, and a POST issued, only for a selected
\* category and a parsed count in the variant's range (1..500 or 1..1000); a click with
\* count 0, a count above the maximum, a non-numeric count or no category reports the
\* range-validation error and sends no createCollection message and no POST.
C11_CreateOnlyInRange == []C11_Messages /\ [][C11_Click]_vars

C11_Witness ==
  /\ variant = 2 /\ ev.op = "clickCreate" /\ ev.category = "person"
  /\ ev.text = <<"1", "0", "0", "1">> /\ out = <<RangeError>>
TemplateOps == {"getTemplates", "getPreview", "createCollection"}
Requests(s) == {i \in 1..Len(s) : s[i].kind \in {"GET", "POST"}}
LoginNotice == "Please login first (MockMan: Login)."

\* C12: a getTemplates, getPreview or createCollection message handled without a stored
\* credential issues no request and produces the "Please login first" notice, once as an
\* error notification and once as an error message pushed into the template panel.
C12_NoKeyLoginNotice ==
  ev.op = "msgGotKey" /\ ev.cmd \in TemplateOps /\ ~(ev.key.present /\ ev.key.val # <<>>) =>
    /\ Requests(out) = {}
    /\ Len(out) = 2
    /\ out[1].kind = "error" /\ out[1].text = LoginNotice
    /\ out[2].kind = "post" /\ out[2].text = "error" /\ out[2].detail = LoginNotice
    /\ tpl.panel /\ tpl.wv.prompt /\ tpl.wv.message = LoginNotice
\* The message a failure is to be reported with: the server's if it sent one.
Reported(error) ==
  IF error.response /\ error.serverMessage # "" THEN error.serverMessage ELSE error.message

\* C13: a failed list, preview or create request is reported with the server-supplied
\* message if there is one and else with the transport error text, exactly once as a
\* notification and once as an error message in the panel, and no request is issued again.
C13_FailureReportedOnce ==
  ev.op = "requestFailed" =>
    /\ Requests(out) = {}
    /\ Len(out) = 2
    /\ out[1].kind = "error" /\ out[1].detail = Reported(ev.error)
    /\ out[2].kind = "post" /\ out[2].text = "error" /\ out[2].detail = Reported(ev.error)
    /\ tpl.panel /\ tpl.wv.message = Reported(ev.error)
\* The panel shows the sections (listing), or the prompt with a reported error.
Listing == tpl.panel /\ tpl.wv.sections
ErrorShown ==
  tpl.panel /\ tpl.wv.prompt /\ ~tpl.wv.sections /\ tpl.wv.message # "Please login to access templates."

\* C14: a template browser that entered the error state returns to the listing state,
\* its sections usable again, unless the panel is closed.
C14_ErrorReturnsToListing == ErrorShown ~> (Listing \/ ~tpl.panel)
\* The panel shows the login prompt because no credential was found.
NoCredentialShown ==
  /\ tpl.panel /\ tpl.wv.prompt /\ ~tpl.wv.sections
  /\ tpl.wv.message \in {"Please login to access templates.", LoginNotice}

\* C15: a panel that is open and loaded in the no-credential state, once a credential is stored and
\* the template browser has been requested again, reaches the listing state unless it is
\* closed or the fetch of the templates fails.
C15_ReopenReachesListing ==
  (/\ NoCredentialShown /\ tpl.loaded
   /\ secret.present /\ secret.val # <<>>
   /\ ev.op \in {"templates", "showGotKey"})
    ~> (Listing \/ ~tpl.panel \/ (ErrorShown /\ tpl.wv.message # LoginNotice))
\* The credential and the collection the endpoints view was last built from.
ViewKey == ep.data.apiKey.val
ViewId == ep.data.collection._id
ViewName == ep.data.collection.collectionName
Host == "https://api.mockman.online"

\* C16: whatever the collection and the credential, the endpoints view shows exactly nine
\* entries in this order: GET all collections, GET collection by name, GET collection by
\* id, then POST add documents, GET all documents, GET, PUT and DELETE document by id,
\* DELETE all documents; the first three are collection level, the others document level.
C16_NineInOrder ==
  ep.entries # <<>> =>
    /\ Len(ep.entries) = 9
    /\ [i \in 1..9 |-> ep.entries[i].method]
         = <<"GET", "GET", "GET", "POST", "GET", "GET", "PUT", "DELETE", "DELETE">>
    /\ [i \in 1..9 |-> ep.entries[i].description]
         = <<"Get all collections", "Get collection by name", "Get collection by ID",
             "Add documents", "Get all documents", "Get document by ID",
             "Update document by ID", "Delete document by ID", "Delete all documents">>
    /\ \A i \in 1..9 : (i >= 4) <=> (\E j \in 1..Len(ep.entries[i].path) : ep.entries[i].path[j] = "/documents")

C16_Witness ==
  /\ ev.op = "updateGotKey" /\ Len(ep.entries) = 9
  /\ ep.data.collection._id = "c3" /\ ep.data.apiKey.val = <<"a">>

Builds == ev'.op \in {"showEndpoints", "updateGotKey"} /\ \E i \in 1..Len(out') : out'[i] = Post("endpoints")

\* C18: building the endpoints view issues no network request and starts no refresh, and
\* a view built again from the same key and collection shows the same entries as before,
\* whatever happened to the snapshot, the pending requests and the panel in between.
C18_Build ==
  Builds =>
    /\ Requests(out') = {}
    /\ refs' = refs /\ msgs' = msgs
    /\ ep.entries # <<>> /\ ep'.data = ep.data => ep'.entries = ep.entries
C18_SameInputsSameCatalog == [][C18_Build]_vars

C18_Witness ==
  /\ ev.op = "showEndpoints" /\ out = <<Post("endpoints")>>
  /\ ev.view.entries # <<>> /\ ev.view.data = ep.data /\ ep.data.collection._id = "c2"
  /\ \E r \in RefreshIds : refs[r].pc = "fetch"

Writes(s) == {i \in 1..Len(s) : s[i].kind = "clipboard"}

\* C19: a click on an entry or on its copy button starts exactly one clipboard write, of
\* that entry's URL; when the write settles there is exactly one report, a success
\* message if it succeeded and an error message if it failed.
C19_ClickCopiesOnce ==
  /\ ev.op = "clickEndpoint" =>
       /\ Cardinality(Writes(out)) = 1
       /\ \A i \in Writes(out) : out[i].key.val = ev.text
  /\ ev.op = "clipboardOk" => Count(out, "info") = 1 /\ Count(out, "error") = 0
  /\ ev.op = "clipboardFailed" => Count(out, "error") = 1 /\ Count(out, "info") = 0
\* Root entry i is collapsible and labelled with the name of the snapshot's i-th collection.
RootEntry(i) ==
  /\ Tree[i].label = collections[i].collectionName
  /\ Tree[i].collapsibleState = "Collapsed"
OpensEndpoints(i) ==
  /\ Tree[i].command.command = "mockman.showEndpoints"
  /\ Tree[i].command.arguments = <<collections[i]>>

\* C20: getChildren() without a node returns one entry per collection of the snapshot, in
\* snapshot order, each collapsible, labelled with the collection's name and carrying the
\* command that opens the endpoints view with that collection as its argument.
C20_RootEntries ==
  /\ Len(Tree) = Len(collections)
  /\ \A i \in 1..Len(collections) : RootEntry(i) /\ OpensEndpoints(i)

\* C20 as amended: the entries carry that command in variants 1 and 2 and no command in
\* the third variant.
C20_RootEntriesByVariant ==
  /\ Len(Tree) = Len(collections)
  /\ \A i \in 1..Len(collections) :
       /\ RootEntry(i)
       /\ IF variant = 3 THEN Tree[i].command.command = "" /\ Tree[i].command.arguments = <<>>
          ELSE OpensEndpoints(i)

C20_Witness ==
  /\ variant = 1 /\ ev.op = "refreshFetchOk" /\ Len(Tree) = 3
  /\ Tree[3].label = "Users" /\ Tree[3].command.arguments[1]._id = "c3"

\* The fields of a collection as the tree lists them: "fieldName (fieldType)" entries.
FieldEntries(c) ==
  [j \in 1..Len(c.fields) |->
     [label |-> <<c.fields[j].fieldName, " (", c.fields[j].fieldType, ")">>,
      collapsibleState |-> "None", command |-> [command |-> "", arguments |-> <<>>]]]
Named(name) == {i \in 1..Len(collections) : collections[i].collectionName = name}

\* C21: getChildren(node) for a node whose name matches a collection of the snapshot
\* returns one entry per field of a collection of that name, in field order, each
\* labelled "fieldName (fieldType)", not collapsible and without a command.
C21_FieldEntries ==
  (ev.op = "getChildren" /\ Named(ev.node) # {}) =>
    /\ \E i \in Named(ev.node) : ev.children = FieldEntries(collections[i])
    /\ \A j \in 1..Len(ev.children) :
         ev.children[j].collapsibleState = "None" /\ ev.children[j].command.command = ""

C21_Witness ==
  /\ ev.op = "getChildren" /\ ev.node = "Users" /\ Len(collections) = 3
  /\ Len(ev.children) = 2
  /\ ev.children[2].label = <<"age", " (", "number", ")">>

\* C22: getChildren(node) looks the node up by its label in the snapshot current at the
\* call: it returns the fields of the first collection of that name, also for the node
\* of a later collection of the same name, and an empty list without an error when no
\* collection has the name, as after the snapshot was replaced.
C22_FirstByName ==
  ev.op = "getChildren" =>
    /\ Count(out, "error") = 0 /\ Count(out, "throw") = 0
    /\ IF Named(ev.node) = {} THEN ev.children = <<>>
       ELSE \E i \in Named(ev.node) :
              /\ \A j \in Named(ev.node) : i <= j
              /\ ev.children = FieldEntries(collections[i])

\* Both cases: a stale node with no collection of its name, and duplicate names.
C22_Witness ==
  /\ ev.op = "getChildren" /\ ev.node = "Posts" /\ collections = <<cUsers>> /\ ev.children = <<>>
  /\ Len(nodes) = 3 /\ nodes[3].label = "Users"

\* C23: there is never more than one endpoint panel nor more than one template panel,
\* and the handle is set exactly while the panel exists; an open request that finds the
\* panel reuses it and creates none, under any interleaving of open requests and
\* disposals; a disposal empties the handle and the next open request creates a fresh panel.
C23_OnePanelOfEachKind ==
  [][/\ panels'.endpoints <= 1 /\ panels'.templates <= 1
     /\ tpl'.panel = (panels'.templates = 1)
     /\ ep'.panel = (panels'.endpoints = 1)
     /\ (ev'.op = "showGotKey" \/ (ev'.op = "templates" /\ show' = show)) =>
          IF tpl.panel THEN tpl' = tpl /\ panels' = panels
          ELSE tpl'.panel /\ ~tpl'.loaded /\ panels'.templates = 1
     /\ ev'.op = "showEndpoints" =>
          IF ep.panel THEN ep'.panel /\ panels' = panels
          ELSE ep'.panel /\ panels'.endpoints = 1
     /\ ev'.op = "disposeTemplates" => ~tpl'.panel /\ panels'.templates = 0
     /\ ev'.op = "disposeEndpoints" => ~ep'.panel /\ panels'.endpoints = 0]_vars

\* A second show() that was suspended while the first created the panel finds and reveals it.
C23_Witness ==
  /\ ev.op = "showGotKey" /\ out = <<>>
  /\ tpl.panel /\ panels.templates = 1

\* C24: once a credential is stored, no step changes the persisted credential or the
\* cached key from a key to absent.
C24_CredentialNeverReset ==
  [][Truthy(secret) =>
       /\ Truthy(secret')
       /\ Truthy(cache) => Truthy(cache')]_vars

\* C25: no step of a template-browser message handler throws on the panel handle, and
\* the completion of a getTemplates, getPreview or createCollection request that
\* succeeded reports no error, the panel having been closed meanwhile included.
C25_NoUseAfterDispose ==
  /\ ev.op \in {"msgGotKey", "templatesOk", "previewOk", "createOk", "requestFailed"} => Count(out, "throw") = 0
  /\ ev.op \in {"templatesOk", "previewOk", "createOk"} => Count(out, "error") = 0

\* The credential the extension has stored: the secret, the setting in variant 3.
Credential == IF variant = 3 THEN config ELSE secret

\* C26: when a fetch completes with a non-empty snapshot and leaves no refresh and no
\* callback in flight, the fetch was made with the credential that is stored then.
C26_SnapshotOfStoredKey ==
  [][(/\ ev'.op = "refreshFetchOk" /\ collections' # <<>>
      /\ \A r \in RefreshIds : refs'[r].pc = "unused"
      /\ \A h \in CallbackIds : cbs'[h].pc = "unused")
       => \E r \in RefreshIds : refs[r].pc = "fetch" /\ refs'[r].pc = "unused" /\ refs[r].key = Credential']_vars

\* The createCollection requests of the open panel that are in flight.
PendingCreates ==
  {m \in MsgIds : msgs[m].pc # "unused" /\ msgs[m].cmd = "createCollection" /\ ~msgs[m].closed}

\* C27: the open template panel has at most one createCollection request in flight, and
\* while it has one its create button is disabled or hidden.
C27_OneCreateInFlight ==
  /\ Cardinality(PendingCreates) <= 1
  /\ PendingCreates # {} => tpl.wv.disabled \/ ~tpl.wv.sections

\* C28: while the panel that sent it stays open, every createCollection message leads to
\* the create button being enabled again, whether the key is missing, the POST succeeds
\* or the POST fails.
C28_CreateReenablesButton ==
  \A m \in MsgIds :
    (msgs[m].pc # "unused" /\ msgs[m].cmd = "createCollection" /\ ~msgs[m].closed)
      ~> (~tpl.panel \/ ~tpl.wv.disabled)

\* A failed POST put the button of the open panel back.
C28_Witness ==
  /\ ev.op = "requestFailed" /\ ev.cmd = "createCollection"
  /\ tpl.panel /\ ~tpl.wv.disabled
  /\ \E i \in 1..Len(out) : out[i].kind = "post" /\ out[i].text = "error"

\* C29: with a credential stored and no content push pending, the endpoints view shows
\* the collection named in its title, the one of the most recent show request; and a
\* step posts content only to a panel that exists.
C29_ContentMatchesTitle ==
  /\ (Truthy(secret) /\ ep.panel /\ \A u \in UpdateIds : upds[u].pc = "unused")
       => ep.title = <<"Endpoints for ", ep.data.collection.collectionName>>
  /\ (\E i \in 1..Len(out) : out[i].kind = "post" /\ out[i].text = "endpoints") => ep.panel

\* A response key that is there and not the empty string, and the success notices.
NonEmpty(k) == k.present /\ k.val # <<>>
LoggedIn == {"Account created & Logged in successfully!", "Logged in successfully! API Key saved."}

\* C30: in the prompt-based sign-up and login commands an empty or cancelled field means
\* no request and an unchanged credential; the credential is written, and success is
\* reported and a refresh started, only for a response with a non-empty apiSecretKey;
\* a response without one and a failed request report exactly one error and change
\* neither the credential nor the snapshot.
C30_PromptLogin ==
  [][/\ (ev'.op = "authCommand" /\ \E i \in DOMAIN ev'.fields : ~NonEmpty(ev'.fields[i]))
          => Count(out', "POST") = 0 /\ config' = config
     /\ (ev'.op = "authCommand" /\ \A i \in DOMAIN ev'.fields : NonEmpty(ev'.fields[i]))
          => Count(out', "POST") = 1 /\ config' = config
     /\ config' # config
          => \E a \in AuthIds : auth[a].pc = "update" /\ NonEmpty(auth[a].key) /\ config' = auth[a].key
     /\ (\E i \in 1..Len(out') : out'[i].kind = "info" /\ out'[i].text \in LoggedIn)
          => /\ ev'.op = "authUpdated" /\ NonEmpty(ev'.key)
             /\ Count(out', "info") = 1 /\ Count(out', "GET") = 1 /\ Count(out', "error") = 0
     /\ ((ev'.op = "authResponse" /\ ~NonEmpty(ev'.key)) \/ ev'.op = "authPostFail")
          => /\ Count(out', "error") = 1 /\ Count(out', "info") = 0 /\ Count(out', "GET") = 0
             /\ config' = config /\ collections' = collections]_vars

\* A login replaced the configured key and started the refresh.
C30_Witness ==
  /\ ev.op = "authUpdated" /\ ev.cmd = "login"
  /\ config = Str(<<"a">>)
  /\ \E r \in RefreshIds : refs[r].pc = "fetch" /\ refs[r].key = Str(<<"a">>)
  /\ Count(out, "info") = 1

====
